---- MODULE Spec2Model ----
\* Model of src/wasm/multipart.rs: the multipart Form builder and its
\* encoding into a host FormData (Form::to_form_data, Part::append_to_form,
\* Part::blob).
EXTENDS Integers, Sequences, FiniteSets, TLC

\* ---------------------------------------------------------------- bounds
MaxFields == 2

\* ------------------------------------------------------------ Option<T>
\* Rust's Option is modelled as a sequence of length 0 or 1.
None == <<>>
Some(x) == <<x>>

\* ------------------------------------------------------------ input sets
Names == {"a", "b"}
FileNames == {"note.txt"}
\* mime_guess::mime::TEXT_PLAIN
TEXT_PLAIN == "text/plain"
\* Mime values a caller can configure.  Mime equality is equality of the
\* whole media type, parameters included, so the charset variant is a
\* value different from TEXT_PLAIN.
Mimes == {TEXT_PLAIN, "text/plain; charset=utf-8", "application/json"}
\* "hi" as UTF-8
TextValues == {<<104, 105>>}
ByteValues == {<<0, 42>>}
\* error values the host can throw
HostErrors == {"TypeError"}

\* ------------------------------------------------- host objects (web_sys)
\* A host Blob.  native = TRUE marks an object the caller handed in,
\* native = FALSE one that Part::blob constructed.
HostBlobs ==
    {[native |-> TRUE, type |-> Some("image/jpeg"),
      bits |-> <<[js |-> "Uint8Array", bytes |-> <<0, 42>>]>>]}

\* ------------------------------------------------------------ Body/Single
\* super::body::Single, as far as this file distinguishes its variants:
\* Single::Blob (line 196), Single::Text (line 207), anything else.
Body_text(text) == [kind |-> "Text", data |-> text, blob |-> None]
Body_bytes(bytes) == [kind |-> "Bytes", data |-> bytes, blob |-> None]
Body_blob(b) == [kind |-> "Blob", data |-> <<>>, blob |-> Some(b)]

\* Single::to_js_value: a string for text, a byte array for bytes.
to_js_value(single) ==
    [js |-> IF single.kind = "Text" THEN "string" ELSE "Uint8Array",
     bytes |-> single.data]

\* ------------------------------------------------------------ PartMetadata
\* (the headers collection is never read by the encoder and is left out)
PartMetadata_new == [mime |-> None, file_name |-> None]
PartMetadata_mime(meta, mime) == [meta EXCEPT !.mime = Some(mime)]
PartMetadata_file_name(meta, filename) == [meta EXCEPT !.file_name = Some(filename)]

\* ------------------------------------------------------------------ Part
Part_new(value) == [meta |-> PartMetadata_new, value |-> value]
Part_text(value) == Part_new(Body_text(value))
Part_bytes(value) == Part_new(Body_bytes(value))
Part_stream(body) == Part_new(body)
Part_mime(part, mime) == [part EXCEPT !.meta = PartMetadata_mime(@, mime)]
Part_file_name(part, filename) == [part EXCEPT !.meta = PartMetadata_file_name(@, filename)]

\* every Part the builder methods can produce over the input sets
BaseParts ==
    {Part_text(t) : t \in TextValues}
        \cup {Part_bytes(b) : b \in ByteValues}
        \cup {Part_stream(Body_blob(b)) : b \in HostBlobs}
WithMime(ps) == ps \cup {Part_mime(p, m) : p \in ps, m \in Mimes}
WithFileName(ps) == ps \cup {Part_file_name(p, f) : p \in ps, f \in FileNames}
PartSet == WithFileName(WithMime(BaseParts))

\* ------------------------------------------------------------ FormParts
FormParts_new == <<>>
\* variant: a field replaces an earlier field of the same name
FormParts_part_replacing(fields, name, part) ==
    IF \E i \in 1..Len(fields) : fields[i][1] = name
    THEN [i \in 1..Len(fields) |->
             IF fields[i][1] = name THEN <<name, part>> ELSE fields[i]]
    ELSE Append(fields, <<name, part>>)
FormParts_part(fields, name, part) == Append(fields, <<name, part>>)

\* ------------------------------------------------------------------ Form
Form_is_empty(fields) == Len(fields) = 0
Form_part(fields, name, part) == FormParts_part(fields, name, part)
Form_text(fields, name, value) == Form_part(fields, name, Part_text(value))

\* ------------------------------------------------------------- errors
\* An error value is the chain of its wrappers, outermost first, ending in
\* the host's error value.  crate::error::wasm and crate::error::builder
\* receive the error value only (map_err), never the field's name.
error_wasm(js_val) == <<"wasm">> \o js_val
\* variant: the error is built with another kind
error_builder_as_request(e) == <<"request">> \o e
error_builder(e) == <<"builder">> \o e
\* the `?` of line 217 converts Part::blob's crate::Error into a JsValue
JsValue_from_error(e) == <<"js">> \o e

\* --------------------------------------------- web_sys::FormData (host)
\* The sink is the sequence of its entries in enumeration order.
FormData_entry(name, op, text, blob, file_name) ==
    [name |-> name, op |-> op, text |-> text, blob |-> blob, file_name |-> file_name]
append_with_str(form, name, text) ==
    Append(form, FormData_entry(name, "append_with_str", Some(text), None, None))
append_with_blob(form, name, blob) ==
    Append(form, FormData_entry(name, "append_with_blob", None, Some(blob), None))
append_with_blob_and_filename(form, name, blob, file_name) ==
    Append(form, FormData_entry(name, "append_with_blob_and_filename",
                                None, Some(blob), Some(file_name)))

\* What the host does with the calls of one append_to_form: whether
\* Blob::new and FormData::append succeed, and the value thrown if not.
HostOutcomes ==
    [blob_ok : BOOLEAN, append_ok : BOOLEAN, cause : HostErrors]

\* one host call as recorded in the log of calls
HostCall(op, name, thrown) ==
    [op |-> op, name |-> name, ok |-> thrown = None, thrown |-> thrown]

\* ----------------------------------------------------- Part::append_to_form
\* variant: the file name is not looked at
use_append_with_str_any_file_name(part) ==
    /\ part.value.kind = "Text"
    /\ (part.meta.mime = None \/ part.meta.mime = Some(TEXT_PLAIN))

\* lines 207-211: the text is appended as a plain string
use_append_with_str(part) ==
    /\ part.value.kind = "Text"
    /\ (part.meta.mime = None \/ part.meta.mime = Some(TEXT_PLAIN))
    /\ part.meta.file_name = None

\* variant: the configured mime is kept for text too
effective_mime_type_no_downgrade(part) == part.meta.mime

\* variant: the downgrade is applied whatever the kind of the payload
effective_mime_type_every_kind(part) ==
    IF ~(part.meta.mime = None \/ part.meta.mime = Some(TEXT_PLAIN))
    THEN Some(TEXT_PLAIN)
    ELSE part.meta.mime

\* variant: every text that becomes a blob is given text/plain
effective_mime_type_text_always_plain(part) ==
    IF part.value.kind = "Text" THEN Some(TEXT_PLAIN) ELSE part.meta.mime

\* lines 194, 207-215: the mime type handed to Part::blob
effective_mime_type(part) ==
    IF /\ part.value.kind = "Text"
       /\ ~(part.meta.mime = None \/ part.meta.mime = Some(TEXT_PLAIN))
    THEN Some(TEXT_PLAIN)
    ELSE part.meta.mime

\* Part::blob: a new Blob of the part's value with the given type, or the
\* host's error wrapped as a builder error.
blob(part, mime_type, host) ==
    IF host.blob_ok
    THEN [blob |-> Some([native |-> FALSE, type |-> mime_type,
                         bits |-> <<to_js_value(part.value)>>]),
          err |-> None]
    ELSE [blob |-> None,
          err |-> Some(error_builder(error_wasm(<<host.cause>>)))]

\* variant: the file name is dropped
append_blob_unnamed(part, name, form, b, host) ==
    IF ~host.append_ok
    THEN [form |-> form,
          calls |-> <<HostCall("append_with_blob", name, Some(host.cause))>>,
          err |-> Some(<<host.cause>>)]
    ELSE [form |-> append_with_blob(form, name, b),
          calls |-> <<HostCall("append_with_blob", name, None)>>,
          err |-> None]

\* lines 196-201 and 219-223: the named or the unnamed append of a blob
append_blob(part, name, form, b, host) ==
    LET op == IF part.meta.file_name # None
              THEN "append_with_blob_and_filename" ELSE "append_with_blob"
    IN  IF ~host.append_ok
        THEN [form |-> form, calls |-> <<HostCall(op, name, Some(host.cause))>>,
              err |-> Some(<<host.cause>>)]
        ELSE [form |-> IF part.meta.file_name # None
                       THEN append_with_blob_and_filename(form, name, b,
                                                          part.meta.file_name[1])
                       ELSE append_with_blob(form, name, b),
              calls |-> <<HostCall(op, name, None)>>,
              err |-> None]

\* variant: a native Blob is not passed through but rebuilt like bytes
append_to_form_rebuilding(part, name, form, host) ==
    LET built == blob(part, effective_mime_type(part), host)
    IN  IF use_append_with_str(part)
        THEN IF host.append_ok
             THEN [form |-> append_with_str(form, name, part.value.data),
                   calls |-> <<HostCall("append_with_str", name, None)>>,
                   err |-> None]
             ELSE [form |-> form,
                   calls |-> <<HostCall("append_with_str", name, Some(host.cause))>>,
                   err |-> Some(<<host.cause>>)]
        ELSE IF built.err # None
        THEN [form |-> form,
              calls |-> <<HostCall("Blob_new", name, Some(host.cause))>>,
              err |-> Some(JsValue_from_error(built.err[1]))]
        ELSE LET r == append_blob(part, name, form, built.blob[1], host)
             IN  [r EXCEPT !.calls = <<HostCall("Blob_new", name, None)>> \o @]

\* variant: the plain-string append does not return, and the blob path
\* runs after it
append_to_form_falling_through(part, name, form, host) ==
    LET built == blob(part, effective_mime_type(part), host)
        form1 == IF use_append_with_str(part) /\ host.append_ok
                 THEN append_with_str(form, name, part.value.data)
                 ELSE form
        calls1 == IF use_append_with_str(part) /\ host.append_ok
                  THEN <<HostCall("append_with_str", name, None)>>
                  ELSE <<>>
    IN  IF part.value.kind = "Blob"
        THEN append_blob(part, name, form, part.value.blob[1], host)
        ELSE IF use_append_with_str(part) /\ ~host.append_ok
        THEN [form |-> form,
              calls |-> <<HostCall("append_with_str", name, Some(host.cause))>>,
              err |-> Some(<<host.cause>>)]
        ELSE IF built.err # None
        THEN [form |-> form1,
              calls |-> calls1 \o <<HostCall("Blob_new", name, Some(host.cause))>>,
              err |-> Some(JsValue_from_error(built.err[1]))]
        ELSE LET r == append_blob(part, name, form1, built.blob[1], host)
             IN  [r EXCEPT !.calls =
                      calls1 \o <<HostCall("Blob_new", name, None)>> \o @]

\* Part::append_to_form: the sink after the call, the host calls made, and
\* the JsValue error if one of them failed.
append_to_form(part, name, form, host) ==
    IF part.value.kind = "Blob"
    THEN append_blob(part, name, form, part.value.blob[1], host)
    ELSE IF use_append_with_str(part)
    THEN IF host.append_ok
         THEN [form |-> append_with_str(form, name, part.value.data),
               calls |-> <<HostCall("append_with_str", name, None)>>,
               err |-> None]
         ELSE [form |-> form,
               calls |-> <<HostCall("append_with_str", name, Some(host.cause))>>,
               err |-> Some(<<host.cause>>)]
    ELSE LET built == blob(part, effective_mime_type(part), host)
         IN  IF built.err # None
             THEN [form |-> form,
                   calls |-> <<HostCall("Blob_new", name, Some(host.cause))>>,
                   err |-> Some(JsValue_from_error(built.err[1]))]
             ELSE LET r == append_blob(part, name, form, built.blob[1], host)
                  IN  [r EXCEPT !.calls = <<HostCall("Blob_new", name, None)>> \o @]

\* ------------------------------------------------------ Form::to_form_data
\* variant: the error of an iteration is dropped and the loop goes on
loop_next_ignoring_error(i, err) ==
    [pc |-> "encoding", idx |-> i + 1, result |-> None]

\* lines 97-101: after one iteration the loop goes on to the next field, or
\* `?` returns the wrapped error.
loop_next(i, err) ==
    IF err = None
    THEN [pc |-> "encoding", idx |-> i + 1, result |-> None]
    ELSE [pc |-> "failed", idx |-> i,
          result |-> Some(error_builder(error_wasm(err[1])))]

\* ------------------------------------------------------------------ state
VARIABLES
    fields,     \* Form.inner.fields: sequence of <<name, part>>
    calls,      \* history: the Form::text / Form::part calls made so far
    pc,         \* "build", "encoding", "ok" (Ok(form)), "failed" (Err)
    idx,        \* position of the loop of to_form_data in fields
    sink,       \* the FormData being filled
    hostLog,    \* history: every host call made by to_form_data
    result      \* the error returned by to_form_data, if any

vars == <<fields, calls, pc, idx, sink, hostLog, result>>

Init ==
    /\ fields = FormParts_new
    /\ calls = <<>>
    /\ pc = "build"
    /\ idx = 0
    /\ sink = <<>>
    /\ hostLog = <<>>
    /\ result = None

\* Form::text(name, value)
FormText ==
    /\ pc = "build"
    /\ Len(fields) < MaxFields
    /\ \E name \in Names, value \in TextValues :
         /\ fields' = Form_text(fields, name, value)
         /\ calls' = Append(calls, [op |-> "text", name |-> name,
                                    value |-> Some(value), part |-> None])
    /\ UNCHANGED <<pc, idx, sink, hostLog, result>>

\* Form::part(name, part)
FormPart ==
    /\ pc = "build"
    /\ Len(fields) < MaxFields
    /\ \E name \in Names, part \in PartSet :
         /\ fields' = Form_part(fields, name, part)
         /\ calls' = Append(calls, [op |-> "part", name |-> name,
                                    value |-> None, part |-> Some(part)])
    /\ UNCHANGED <<pc, idx, sink, hostLog, result>>

\* to_form_data, lines 93-95: FormData::new() succeeds
EncodeStart ==
    /\ pc = "build"
    /\ pc' = "encoding"
    /\ idx' = 1
    /\ sink' = <<>>
    /\ hostLog' = Append(hostLog, [op |-> "FormData_new", name |-> "", ok |-> TRUE,
                                   thrown |-> None, field |-> 0])
    /\ UNCHANGED <<fields, calls, result>>

\* to_form_data, lines 93-95: FormData::new() fails
EncodeStartFails ==
    /\ pc = "build"
    /\ \E cause \in HostErrors :
         /\ result' = Some(error_builder(error_wasm(<<cause>>)))
         /\ hostLog' = Append(hostLog, [op |-> "FormData_new", name |-> "", ok |-> FALSE,
                                        thrown |-> Some(cause), field |-> 0])
    /\ pc' = "failed"
    /\ UNCHANGED <<fields, calls, idx, sink>>

\* to_form_data, lines 97-101: one iteration of the loop
EncodeField ==
    /\ pc = "encoding"
    /\ idx <= Len(fields)
    /\ \E host \in HostOutcomes :
         LET r == append_to_form(fields[idx][2], fields[idx][1], sink, host)
             n == loop_next(idx, r.err)
         IN  /\ sink' = r.form
             /\ hostLog' = hostLog \o
                    [k \in 1..Len(r.calls) |->
                        [op |-> r.calls[k].op, name |-> r.calls[k].name,
                         ok |-> r.calls[k].ok, thrown |-> r.calls[k].thrown,
                         field |-> idx]]
             /\ pc' = n.pc
             /\ idx' = n.idx
             /\ result' = n.result
    /\ UNCHANGED <<fields, calls>>

\* to_form_data, line 102: Ok(form)
EncodeDone ==
    /\ pc = "encoding"
    /\ idx > Len(fields)
    /\ pc' = "ok"
    /\ UNCHANGED <<fields, calls, idx, sink, hostLog, result>>

Next ==
    \/ FormText
    \/ FormPart
    \/ EncodeStart
    \/ EncodeStartFails
    \/ EncodeField
    \/ EncodeDone

Spec == Init /\ [][Next]_vars

\* ================================================================ claims
AppendOps == {"append_with_str", "append_with_blob", "append_with_blob_and_filename"}
IsAppend(c) == c.op \in AppendOps
\* the host calls made for field i
CallsOfField(i) == SelectSeq(hostLog, LAMBDA c : c.field = i)
BlobBuilt(i) == \E k \in 1..Len(hostLog) : hostLog[k].field = i /\ hostLog[k].op = "Blob_new"
\* fields whose append has succeeded: entry i of the sink comes from field i
Encoded == 1..Len(sink)
PartOf(i) == fields[i][2]
IsText(part) == part.value.kind = "Text"
MimePlainOrUnset(part) == part.meta.mime = None \/ part.meta.mime = Some("text/plain")
IsAttachment(e) ==
    /\ e.op \in {"append_with_blob", "append_with_blob_and_filename"}
    /\ e.blob # None
    /\ e.text = None

\* C1: a successful encode makes exactly one append per field, in the order
\* of the Form's field list: the names appended are the names of the fields,
\* same length and order, duplicates kept; no field gives an empty sink.
C1_OneAppendPerFieldInOrder ==
    pc = "ok" =>
        LET appends == SelectSeq(hostLog, IsAppend)
        IN  /\ Len(appends) = Len(fields)
            /\ Len(sink) = Len(fields)
            /\ \A i \in 1..Len(fields) :
                 /\ appends[i].name = fields[i][1]
                 /\ appends[i].field = i
                 /\ sink[i].name = fields[i][1]
            /\ (Len(fields) = 0 => sink = <<>>)

C1_Witness ==
    /\ pc = "ok"
    /\ Len(fields) = 2
    /\ fields[1][1] = "b"
    /\ fields[2][1] = "a"
    /\ sink[1].name = "b"
    /\ sink[2].name = "a"

\* C2: a text field whose mime is set to something other than text/plain is
\* appended as a blob, never as a plain string, and the blob's content type
\* is text/plain, with or without a file name.
C2_TextCustomMimeDowngraded ==
    \A i \in Encoded :
        (IsText(PartOf(i)) /\ ~MimePlainOrUnset(PartOf(i))) =>
            /\ IsAttachment(sink[i])
            /\ sink[i].blob[1].type = Some("text/plain")

C2_Witness ==
    /\ pc = "ok"
    /\ \E i \in Encoded :
         /\ IsText(PartOf(i))
         /\ PartOf(i).meta.mime = Some("application/json")
         /\ PartOf(i).meta.file_name = None
         /\ sink[i].op = "append_with_blob"
         /\ sink[i].blob[1].type = Some("text/plain")

\* C3: a field whose payload is a native Blob is appended as that same
\* object, no new blob is built for it, and so its content type is the
\* object's own type whatever mime is configured on the field.
C3_NativeBlobPassedThrough ==
    \A i \in Encoded :
        PartOf(i).value.kind = "Blob" =>
            /\ IsAttachment(sink[i])
            /\ sink[i].blob = PartOf(i).value.blob
            /\ sink[i].blob[1].native
            /\ sink[i].blob[1].type = PartOf(i).value.blob[1].type
            /\ ~BlobBuilt(i)

C3_Witness ==
    /\ pc = "ok"
    /\ \E i \in Encoded :
         /\ PartOf(i).value.kind = "Blob"
         /\ PartOf(i).meta.mime = Some("application/json")
         /\ sink[i].blob[1].type = Some("image/jpeg")

\* C4: a field is appended as a plain string (no blob built, no content
\* type, no file name) exactly when its payload is text, its mime is unset
\* or text/plain and its file name is unset; any other field is appended as
\* an attachment.
C4_PlainStringExactlyWhen ==
    \A i \in Encoded :
        LET plain == /\ IsText(PartOf(i))
                     /\ MimePlainOrUnset(PartOf(i))
                     /\ PartOf(i).meta.file_name = None
        IN  /\ (sink[i].op = "append_with_str") <=> plain
            /\ plain =>
                 /\ sink[i].text = Some(PartOf(i).value.data)
                 /\ sink[i].blob = None
                 /\ sink[i].file_name = None
                 /\ ~BlobBuilt(i)
            /\ ~plain => IsAttachment(sink[i])

C4_Witness ==
    /\ pc = "ok"
    /\ \E i, j \in Encoded :
         /\ IsText(PartOf(i))
         /\ PartOf(i).meta.mime = Some("text/plain")
         /\ PartOf(i).meta.file_name = None
         /\ sink[i].op = "append_with_str"
         /\ IsText(PartOf(j))
         /\ PartOf(j).meta.mime = None
         /\ PartOf(j).meta.file_name # None
         /\ sink[j].op # "append_with_str"

\* C5: for a field of raw bytes a blob is built from the field's own
\* payload with exactly the configured mime (unset stays unset, a set type is
\* passed on as it is, no text/plain override) and that blob is appended.
C5_BytesBlobKeepsMime ==
    \A i \in Encoded :
        PartOf(i).value.kind = "Bytes" =>
            /\ IsAttachment(sink[i])
            /\ BlobBuilt(i)
            /\ ~sink[i].blob[1].native
            /\ sink[i].blob[1].type = PartOf(i).meta.mime
            /\ sink[i].blob[1].bits = <<to_js_value(PartOf(i).value)>>

C5_Witness ==
    /\ pc = "ok"
    /\ \E i, j \in Encoded :
         /\ PartOf(i).value.kind = "Bytes"
         /\ PartOf(i).meta.mime = Some("application/json")
         /\ sink[i].blob[1].type = Some("application/json")
         /\ PartOf(j).value.kind = "Bytes"
         /\ PartOf(j).meta.mime = None
         /\ sink[j].blob[1].type = None

\* C6: every field appended as an attachment (native Blob, promoted text,
\* bytes) is appended with the named append carrying the field's file name
\* when the file name is set, and with the unnamed append when it is unset.
C6_AttachmentNamedByFileName ==
    \A i \in Encoded :
        sink[i].op # "append_with_str" =>
            IF PartOf(i).meta.file_name # None
            THEN /\ sink[i].op = "append_with_blob_and_filename"
                 /\ sink[i].file_name = PartOf(i).meta.file_name
            ELSE /\ sink[i].op = "append_with_blob"
                 /\ sink[i].file_name = None

C6_Witness ==
    /\ pc = "ok"
    /\ \E i, j \in Encoded :
         /\ PartOf(i).value.kind = "Blob"
         /\ PartOf(i).meta.file_name = Some("note.txt")
         /\ sink[i].op = "append_with_blob_and_filename"
         /\ sink[i].file_name = Some("note.txt")
         /\ PartOf(j).value.kind = "Bytes"
         /\ PartOf(j).meta.file_name = None
         /\ sink[j].op = "append_with_blob"

\* C7: a text field with a file name and a mime that is unset or text/plain
\* is appended as a named attachment built from the field's text, and its
\* content type is the configured mime unchanged: unset, or text/plain.
C7_NamedTextKeepsMime ==
    \A i \in Encoded :
        (/\ IsText(PartOf(i))
         /\ PartOf(i).meta.file_name # None
         /\ MimePlainOrUnset(PartOf(i))) =>
            /\ sink[i].op = "append_with_blob_and_filename"
            /\ sink[i].file_name = PartOf(i).meta.file_name
            /\ sink[i].blob # None
            /\ ~sink[i].blob[1].native
            /\ sink[i].blob[1].type = PartOf(i).meta.mime
            /\ sink[i].blob[1].bits = <<to_js_value(PartOf(i).value)>>

C7_Witness ==
    /\ pc = "ok"
    /\ \E i, j \in Encoded :
         /\ IsText(PartOf(i))
         /\ PartOf(i).meta.file_name = Some("note.txt")
         /\ PartOf(i).meta.mime = None
         /\ sink[i].blob[1].type = None
         /\ IsText(PartOf(j))
         /\ PartOf(j).meta.file_name = Some("note.txt")
         /\ PartOf(j).meta.mime = Some("text/plain")
         /\ sink[j].blob[1].type = Some("text/plain")

\* C8: encode is fail-fast: a failed host call (FormData::new, Blob::new for
\* a field, a field's append) is the last host call made, encode returns an
\* error and no sink; when FormData::new fails no field is processed, and
\* when field i fails no field after i is processed.
C8_FailFast ==
    /\ \A k \in 1..Len(hostLog) :
         ~hostLog[k].ok =>
            /\ k = Len(hostLog)
            /\ pc = "failed"
            /\ result # None
            /\ \A j \in 1..Len(hostLog) : hostLog[j].field <= hostLog[k].field
            /\ Len(sink) = (IF hostLog[k].field = 0 THEN 0 ELSE hostLog[k].field - 1)
    /\ pc = "ok" => result = None
    /\ pc = "failed" => (hostLog # <<>> /\ ~hostLog[Len(hostLog)].ok)

C8_Witness ==
    /\ pc = "failed"
    /\ Len(fields) = 2
    /\ Len(hostLog) = 3
    /\ hostLog[2].op = "Blob_new"
    /\ hostLog[2].ok
    /\ hostLog[3].op = "append_with_blob"
    /\ ~hostLog[3].ok
    /\ hostLog[3].field = 1
    /\ sink = <<>>

\* the field whose host call failed, 0 when none did or FormData::new did
FailedField ==
    IF hostLog # <<>> /\ ~hostLog[Len(hostLog)].ok
    THEN hostLog[Len(hostLog)].field
    ELSE 0

PairOfCall(c) ==
    IF c.op = "text"
    THEN <<c.name, [meta |-> [mime |-> None, file_name |-> None],
                    value |-> [kind |-> "Text", data |-> c.value[1], blob |-> None]]>>
    ELSE <<c.name, c.part[1]>>

\* C10: a Form starts empty and its field list is always the sequence of
\* the <<name, field>> pairs passed to Form::text and Form::part, in call
\* order, duplicates kept; is_empty() is true exactly when no call was made.
C10_FieldsAreTheCallsInOrder ==
    /\ Len(fields) = Len(calls)
    /\ \A i \in 1..Len(calls) : fields[i] = PairOfCall(calls[i])
    /\ Form_is_empty(fields) <=> calls = <<>>

C10_Witness ==
    /\ Len(fields) = 2
    /\ calls[1].op = "text"
    /\ calls[2].op = "part"
    /\ fields[1][1] = fields[2][1]
    /\ fields[1][2] # fields[2][2]

====
